---- MODULE Spec2Model ----
(***************************************************************************)
(* The Tibber collector (tibber_collector.py, DuckDB store, and            *)
(* tibber_collector_sqlite.py, SQLite store) as a state machine:           *)
(* Transport (_make_request), Range Resolver (_get_last_timestamp and the  *)
(* head of fetch_consumption_data), Pagination Walker (the loop and the    *)
(* final filter of fetch_consumption_data), Record Merger (save_data) and  *)
(* Aggregation Maintainer (_update_aggregations).                          *)
(*                                                                         *)
(* Time is counted in hours.  Instant 0 is 2024-10-26T22:00Z, so that the  *)
(* UTC day changes at instant 2, the European clocks fall back from +02:00 *)
(* to +01:00 at instant 3 and November starts at instant 122.              *)
(***************************************************************************)
EXTENDS Integers, Sequences, FiniteSets, TLC

(***************************************************************************)
(* Bounds of the model.                                                    *)
(***************************************************************************)
MaxRetries == 4
PageSize == 3
MaxPages == 2
MaxBatch == 2

(***************************************************************************)
(* Program constants.                                                      *)
(***************************************************************************)
DefaultRetries == 3
LookbackHours == 2160
IntervalHours == 1
ExceptionDelay == 1
HoursPerDay == 24

(***************************************************************************)
(* Nullable values: SQL NULL / Python None is the empty tuple, a value v   *)
(* is <<v>>.                                                               *)
(***************************************************************************)
Null == <<>>
Some(v) == <<v>>
IsNull(x) == x = <<>>
Val(x) == x[1]

RECURSIVE Pow2(_)
Pow2(n) == IF n = 0 THEN 1 ELSE 2 * Pow2(n - 1)

(***************************************************************************)
(* Timestamps.  An ISO-8601 string is its local wall-clock hour and its    *)
(* zone suffix; the instant it denotes is the local hour less the offset.  *)
(***************************************************************************)
Zones == {"+01:00", "+02:00", "Z"}

OffsetOf(z) == CASE z = "+01:00" -> 1 [] z = "+02:00" -> 2 [] OTHER -> 0

\* Byte order of the suffixes: '+' (0x2B) sorts before 'Z' (0x5A).
ZoneRank(z) == CASE z = "+01:00" -> 1 [] z = "+02:00" -> 2 [] OTHER -> 3

Stamp(loc, zone) == [loc |-> loc, zone |-> zone]

\* datetime.fromisoformat(x.replace('Z', '+00:00')), compared as an instant.
Instant(s) == s.loc - OffsetOf(s.zone)

\* The stamp of instant i written with zone z.
At(i, z) == Stamp(i + OffsetOf(z), z)

\* Byte-wise comparison of two ISO strings of the same layout.
TextLess(a, b) ==
    \/ a.loc < b.loc
    \/ a.loc = b.loc /\ ZoneRank(a.zone) < ZoneRank(b.zone)

\* The UTC calendar day (0 is 2024-10-26) and month of an instant.
DateOf(i) == (i + 22) \div HoursPerDay
MonthOf(i) == IF DateOf(i) <= 5 THEN <<2024, 10>> ELSE <<2024, 11>>

(***************************************************************************)
(* State.                                                                  *)
(***************************************************************************)
VARIABLES
    variant,      \* "duckdb" or "sqlite": which collector runs
    dbCreated,    \* the database file and its three tables exist
    hourly,       \* hourly_consumption: a set of rows
    daily,        \* daily_consumption: date -> bucket
    monthly,      \* monthly_consumption: <<year, month>> -> bucket
    pc,           \* where the collector is
    caller,       \* who called _make_request: "home" or "page"
    retries,      \* _make_request's retries argument
    attempt,      \* _make_request's loop index
    lastError,    \* outcome of the latest failed attempt ("none" before one)
    waited,       \* seconds slept after the latest attempt
    returned,     \* the outcome _make_request returned on ("none" before it does)
    raised,       \* the exception that ended the run (NoError while it runs)
    now,          \* the current instant
    source,       \* what the source holds: its nodes, oldest first
    since,        \* fetch_consumption_data's since, an instant
    until,        \* fetch_consumption_data's until, an instant
    max_records,  \* fetch_consumption_data's max_records (Null: None)
    all_edges,    \* the nodes accumulated by the walk
    cursor,       \* the walk's cursor
    page_count,   \* the walk's page_count
    requests,     \* the queries built by this walk, in order
    batch,        \* what fetch_consumption_data returned
    explicit,     \* this run was given a since
    readFailed,   \* _get_last_timestamp caught a storage error in this run
    startMax,     \* the greatest stored from_time instant when the run began
    firstSince,   \* the since of the first run
    allDefault,   \* every run so far resolved its since from the store
    lastPage,     \* the edges of the page the walk fetched last
    lastMore,     \* whether that page's hasNextPage was true
    dirty,        \* this run has written to the store
    clipped,      \* the final filter of this run dropped a record
    before,       \* the three tables when save_data was called
    seen,         \* what the reader read last during this save_data
    written,      \* rows of the batch save_data's row loop has written
    bad_edges     \* the edges of all_edges that have no node

storeVars == <<dbCreated, hourly, daily, monthly>>
transVars == <<caller, retries, attempt, lastError, waited, returned>>
envVars == <<now, source>>
walkVars == <<since, until, max_records, all_edges, cursor, page_count, requests, batch>>
histVars == <<explicit, readFailed, startMax, firstSince, allDefault, lastPage, lastMore,
             dirty, clipped>>
readVars == <<before, seen>>
mergeVars == <<written>>
edgeVars == <<bad_edges>>
vars == <<variant, storeVars, pc, transVars, raised, envVars, walkVars, histVars, readVars,
         mergeVars, edgeVars>>

Variants == {"duckdb", "sqlite"}

(***************************************************************************)
(* Transport: _make_request.                                               *)
(***************************************************************************)
\* How an attempt ends: status 200 with a body ("200"), status 200 with a
\* body that holds a GraphQL errors list ("200e"), another status, or an
\* exception raised inside the try ("exc": the post failed, or the body of a
\* 200 did not decode).
FailureOutcomes == {"429", "504", "500", "exc"}
SuccessOutcomes == {"200", "200e"}

\* A body with embedded errors is sent round again.
IsSuccessClean(outcome) == outcome = "200"

\* if response.status_code == 200: the errors of the body are printed, the
\* body is returned.
IsSuccess(outcome) == outcome \in SuccessOutcomes

Outcomes == FailureOutcomes \cup SuccessOutcomes

\* A wait that grows by one second with each attempt.
WaitAfterLinear(outcome, k, R) ==
    CASE outcome \in {"429", "504"} -> k + 1
      [] outcome = "exc" -> IF k < R - 1 THEN ExceptionDelay ELSE 0
      [] OTHER -> 0

\* The sleep that follows a failed attempt with loop index k.
WaitAfter(outcome, k, R) ==
    CASE outcome \in {"429", "504"} -> Pow2(k)
      [] outcome = "exc" -> IF k < R - 1 THEN ExceptionDelay ELSE 0
      [] OTHER -> 0

NoError == [type |-> "none", attempts |-> 0, cause |-> "none"]

\* The exception raised after the loop: its message names the retry count only.
TransportError(R) == [type |-> "Exception", attempts |-> R, cause |-> "none"]

\* A loop that runs once too often.
InLoopOneMore(k, R) == k <= R

\* for attempt in range(retries): the loop index k is in the range.
InLoop(k, R) == k < R

\* Entering _make_request.
BeginRequest(who, R) ==
    /\ caller' = who
    /\ retries' = R
    /\ attempt' = 0
    /\ lastError' = "none"
    /\ waited' = 0
    /\ returned' = "none"

\* _make_request is left: its locals are gone.  What it returned on is set by
\* the step that returns.
EndRequest ==
    /\ caller' = "home"
    /\ retries' = DefaultRetries
    /\ attempt' = 0
    /\ lastError' = "none"
    /\ waited' = 0

\* fetch_consumption_data's frame is gone.
DropWalk ==
    /\ since' = 0
    /\ until' = 0
    /\ max_records' = Null
    /\ all_edges' = <<>>
    /\ cursor' = Null
    /\ page_count' = 0
    /\ requests' = <<>>
    /\ batch' = <<>>

\* One pass of the retry loop that does not return.
AttemptFail(outcome) ==
    /\ pc = "request"
    /\ InLoop(attempt, retries)
    /\ ~IsSuccess(outcome)
    /\ attempt' = attempt + 1
    /\ lastError' = outcome
    /\ waited' = WaitAfter(outcome, attempt, retries)
    /\ UNCHANGED <<variant, storeVars, pc, caller, retries, returned, raised, envVars, walkVars, histVars, readVars, mergeVars, edgeVars>>

\* Exhaustion handled like an unexpected response: the walk stops and keeps
\* what it has.
ExhaustedKeepsPages ==
    /\ pc = "request"
    /\ ~InLoop(attempt, retries)
    /\ pc' = "filter"
    /\ UNCHANGED <<variant, storeVars, transVars, raised, envVars, walkVars, histVars, readVars, mergeVars, edgeVars>>

\* The loop ran out: the raise after it.  No caller catches it: the locals of
\* fetch_consumption_data are lost with its frame and the run ends.
Exhausted ==
    /\ pc = "request"
    /\ ~InLoop(attempt, retries)
    /\ pc' = "failed"
    /\ raised' = TransportError(retries)
    /\ all_edges' = <<>>
    /\ cursor' = Null
    /\ batch' = <<>>
    /\ lastPage' = <<>>
    /\ lastMore' = FALSE
    /\ bad_edges' = 0
    /\ UNCHANGED <<variant, storeVars, transVars, envVars>>
    /\ UNCHANGED <<since, until, max_records, page_count, requests>>
    /\ UNCHANGED <<explicit, readFailed, startMax, firstSince, allDefault, dirty, clipped, readVars, mergeVars>>

(***************************************************************************)
(* Construction: __init__, _get_home_id, _init_database.                   *)
(***************************************************************************)
\* __init__ with no home id given: _get_home_id calls _make_request.
BeginGetHomeId(R) ==
    /\ pc = "new"
    /\ pc' = "request"
    /\ BeginRequest("home", R)
    /\ UNCHANGED <<variant, storeVars, raised, envVars, walkVars, histVars, readVars, mergeVars, edgeVars>>

\* __init__ with a home id given: straight to _init_database.
InitWithHomeId ==
    /\ pc = "new"
    /\ pc' = "idle"
    /\ dbCreated' = TRUE
    /\ UNCHANGED <<variant, hourly, daily, monthly, transVars, raised, envVars, walkVars, histVars, readVars, mergeVars, edgeVars>>

\* A constructor that creates the database before it asks for the homes.
HomeAttemptOKInitFirst(homes, outcome) ==
    /\ pc = "request"
    /\ caller = "home"
    /\ InLoop(attempt, retries)
    /\ IsSuccess(outcome)
    /\ returned' = outcome
    /\ dbCreated' = TRUE
    /\ IF homes = 0
       THEN /\ pc' = "failed"
            /\ raised' = [type |-> "ValueError", attempts |-> attempt + 1,
                          cause |-> "no homes"]
       ELSE /\ pc' = "idle"
            /\ UNCHANGED raised
    /\ EndRequest
    /\ UNCHANGED <<variant, hourly, daily, monthly, envVars, walkVars, histVars, readVars, mergeVars, edgeVars>>

\* The attempt that returns 200 to _get_home_id; homes is the list length.
HomeAttemptOK(homes, outcome) ==
    /\ pc = "request"
    /\ caller = "home"
    /\ InLoop(attempt, retries)
    /\ IsSuccess(outcome)
    /\ returned' = outcome
    /\ IF homes = 0
       THEN /\ pc' = "failed"
            /\ raised' = [type |-> "ValueError", attempts |-> attempt + 1,
                          cause |-> "no homes"]
            /\ UNCHANGED dbCreated
       ELSE /\ pc' = "idle"
            /\ dbCreated' = TRUE
            /\ UNCHANGED raised
    /\ EndRequest
    /\ UNCHANGED <<variant, hourly, daily, monthly, envVars, walkVars, histVars, readVars, mergeVars, edgeVars>>

(***************************************************************************)
(* What the source sends: a node of an edge.  consumptionUnit and          *)
(* unitPriceVAT are stored as they come and read by nothing; they are left *)
(* out.                                                                    *)
(***************************************************************************)
Pending == [consumption |-> Null, cost |-> Null, unitPrice |-> Some(1), currency |-> "NOK"]
Measured == [consumption |-> Some(1), cost |-> Some(2), unitPrice |-> Some(1), currency |-> "NOK"]
Revised == [consumption |-> Some(2), cost |-> Null, unitPrice |-> Some(4), currency |-> "SEK"]

\* Byte order of the currency codes.
CurrencyRank(c) == CASE c = "NOK" -> 1 [] c = "SEK" -> 2 [] OTHER -> 0

MkNode(from, hours, r) ==
    [from |-> from, to |-> Stamp(from.loc + hours, from.zone),
     consumption |-> r.consumption, cost |-> r.cost,
     unitPrice |-> r.unitPrice, currency |-> r.currency]

\* The timestamps the source writes: the hours around the end of summer time
\* (02:00+02:00 is followed by 02:00+01:00), one instant written in two ways,
\* and the first hour of November.
SatNight == At(1, "+02:00")
SunFirst == At(2, "+02:00")
SunSecond == At(3, "+01:00")
SunSecondZ == At(3, "Z")
NovFirst == At(122, "+01:00")

\* The nodes the source may send: hourly nodes, and one node of DAILY
\* resolution that shares its from-stamp with an hourly one.
Nodes ==
    { MkNode(SatNight, IntervalHours, Measured),
      MkNode(SatNight, IntervalHours, Pending),
      MkNode(SunFirst, IntervalHours, Measured),
      MkNode(SunFirst, IntervalHours, Revised),
      MkNode(SunFirst, HoursPerDay, Revised),
      MkNode(SunSecond, IntervalHours, Revised),
      MkNode(SunSecondZ, IntervalHours, Measured),
      MkNode(NovFirst, IntervalHours, Measured) }

SeqsUpTo(S, n) == UNION { [1..k -> S] : k \in 0..n }

Batches == SeqsUpTo(Nodes, MaxBatch)

(***************************************************************************)
(* Record Merger: save_data.                                               *)
(***************************************************************************)
\* What the from_time / to_time column holds: DuckDB's TIMESTAMP WITH TIME
\* ZONE keeps the instant, SQLite's TEXT keeps the string.
StoreTime(v, s) == IF v = "duckdb" THEN At(Instant(s), "Z") ELSE s

ToRow(v, n) ==
    [from_time |-> StoreTime(v, n.from), to_time |-> StoreTime(v, n.to),
     consumption |-> n.consumption, cost |-> n.cost,
     unit_price |-> n.unitPrice, currency |-> n.currency]

\* PRIMARY KEY (from_time, to_time)
KeyOf(r) == <<r.from_time, r.to_time>>

\* INSERT OR IGNORE: the stored row wins.
InsertOrIgnore(table, r) ==
    IF \E x \in table : KeyOf(x) = KeyOf(r) THEN table ELSE table \cup {r}

\* An upsert that adds the new reading to the stored one.
InsertOrAccumulate(table, r) ==
    IF \E x \in table : KeyOf(x) = KeyOf(r) /\ ~IsNull(x.consumption) /\ ~IsNull(r.consumption)
    THEN LET x == CHOOSE y \in table : KeyOf(y) = KeyOf(r)
         IN {y \in table : KeyOf(y) # KeyOf(r)} \cup
            {[r EXCEPT !.consumption = Some(Val(x.consumption) + Val(r.consumption))]}
    ELSE {y \in table : KeyOf(y) # KeyOf(r)} \cup {r}

\* A replace that empties the table first.
InsertTruncating(table, r) == {r}

\* INSERT OR REPLACE of one row.
InsertOrReplace(table, r) == {x \in table : KeyOf(x) # KeyOf(r)} \cup {r}

\* The rows of a batch, in order.
RECURSIVE UpsertAll(_, _, _)
UpsertAll(table, v, records) ==
    IF records = <<>> THEN table
    ELSE UpsertAll(InsertOrReplace(table, ToRow(v, Head(records))), v, Tail(records))

(***************************************************************************)
(* Aggregation Maintainer: _update_aggregations.                           *)
(***************************************************************************)
RECURSIVE SumField(_, _)
SumField(rows, f) ==
    IF rows = {} THEN 0
    ELSE LET r == CHOOSE x \in rows : TRUE
         IN (IF IsNull(r[f]) THEN 0 ELSE Val(r[f])) + SumField(rows \ {r}, f)

CountField(rows, f) == Cardinality({r \in rows : ~IsNull(r[f])})

RECURSIVE Gcd(_, _)
Gcd(a, b) == IF b = 0 THEN a ELSE Gcd(b, a % b)

\* SUM(f): NULL when no row has a value.
SqlSum(rows, f) ==
    IF CountField(rows, f) = 0 THEN Null ELSE Some(SumField(rows, f))

\* AVG(f): the mean as a fraction in lowest terms.
SqlAvg(rows, f) ==
    IF CountField(rows, f) = 0 THEN Null
    ELSE LET s == SumField(rows, f)
             c == CountField(rows, f)
             g == Gcd(s, c)
         IN Some(<<s \div g, c \div g>>)

\* MAX(currency)
SqlMaxCurrency(rows) ==
    CHOOSE c \in {r.currency : r \in rows} :
        \A r \in rows : CurrencyRank(r.currency) <= CurrencyRank(c)

\* WHERE consumption IS NOT NULL
Included(h) == {r \in h : ~IsNull(r.consumption)}

RowDate(r) == DateOf(Instant(r.from_time))
RowMonth(r) == MonthOf(Instant(r.from_time))

Bucket(rows) ==
    [total_consumption |-> SqlSum(rows, "consumption"),
     total_cost |-> SqlSum(rows, "cost"),
     avg_unit_price |-> SqlAvg(rows, "unit_price"),
     currency |-> SqlMaxCurrency(rows)]

\* The SELECT ... GROUP BY date of the daily statement: key -> bucket.
DailySelect(h) ==
    [d \in {RowDate(r) : r \in Included(h)} |->
        Bucket({r \in Included(h) : RowDate(r) = d})]

\* The SELECT ... GROUP BY year, month of the monthly statement.
MonthlySelect(h) ==
    [m \in {RowMonth(r) : r \in Included(h)} |->
        Bucket({r \in Included(h) : RowMonth(r) = m})]

\* INSERT OR REPLACE INTO an aggregate table (a function key -> bucket): the
\* selected buckets replace those of the same key, the others stay.
ReplaceInto(table, selected) ==
    [k \in DOMAIN table \cup DOMAIN selected |->
        IF k \in DOMAIN selected THEN selected[k] ELSE table[k]]

\* Incremental patching: the selected totals are added to the stored ones.
UpdateDailyPatched(table, h) ==
    LET selected == DailySelect(h)
    IN [k \in DOMAIN table \cup DOMAIN selected |->
          IF k \in DOMAIN table /\ k \in DOMAIN selected
          THEN [selected[k] EXCEPT !.total_consumption =
                  Some(Val(selected[k].total_consumption) + Val(table[k].total_consumption))]
          ELSE IF k \in DOMAIN selected THEN selected[k] ELSE table[k]]

\* INSERT OR IGNORE INTO the monthly table: a stored bucket stays.
UpdateMonthlyKeeping(table, h) ==
    LET selected == MonthlySelect(h)
    IN [k \in DOMAIN table \cup DOMAIN selected |->
          IF k \in DOMAIN table THEN table[k] ELSE selected[k]]

UpdateDaily(table, h) == ReplaceInto(table, DailySelect(h))
UpdateMonthly(table, h) == ReplaceInto(table, MonthlySelect(h))

\* No batch counts as empty.
NeverEmpty(records) == FALSE

\* if len(records) == 0
IsEmptyBatch(records) == Len(records) = 0

\* save_data as a function of the store: nothing on an empty batch, else the
\* upsert followed by _update_aggregations.
Saved(v, st, records) ==
    IF IsEmptyBatch(records) THEN st
    ELSE LET h == UpsertAll(st.hourly, v, records)
         IN [hourly |-> h,
             daily |-> UpdateDaily(st.daily, h),
             monthly |-> UpdateMonthly(st.monthly, h)]

Store == [hourly |-> hourly, daily |-> daily, monthly |-> monthly]

EmptyStore == [hourly |-> {}, daily |-> <<>>, monthly |-> <<>>]

(***************************************************************************)
(* Range Resolver: _get_last_timestamp and the head of                     *)
(* fetch_consumption_data.                                                 *)
(***************************************************************************)
\* SELECT MAX(from_time): of instants in DuckDB, of strings in SQLite.
SqlMaxFromTime(v, h) ==
    IF v = "duckdb"
    THEN CHOOSE t \in {r.from_time : r \in h} :
            \A r \in h : Instant(r.from_time) <= Instant(t)
    ELSE CHOOSE t \in {r.from_time : r \in h} :
            \A r \in h : r.from_time = t \/ TextLess(r.from_time, t)

\* None on an empty table and on a storage error (caught and logged).
GetLastTimestamp(v, h, readOK) ==
    IF ~readOK \/ h = {} THEN Null ELSE Some(SqlMaxFromTime(v, h))

ResolveUntil(untilArg, t) == IF IsNull(untilArg) THEN t ELSE Val(untilArg)

\* A lookback of one day.
ResolveSinceOneDay(sinceArg, last, untilInst) ==
    IF ~IsNull(sinceArg) THEN Val(sinceArg)
    ELSE IF ~IsNull(last) THEN Instant(Val(last)) + IntervalHours
    ELSE untilInst - HoursPerDay

ResolveSince(sinceArg, last, untilInst) ==
    IF ~IsNull(sinceArg) THEN Val(sinceArg)
    ELSE IF ~IsNull(last) THEN Instant(Val(last)) + IntervalHours
    ELSE untilInst - LookbackHours

\* The chronologically greatest stored from_time.
MaxStoredInstant(h) ==
    IF h = {} THEN Null
    ELSE Some(CHOOSE i \in {Instant(r.from_time) : r \in h} :
                 \A r \in h : Instant(r.from_time) <= i)

(***************************************************************************)
(* Pagination Walker: the loop and the final filter of                     *)
(* fetch_consumption_data.                                                 *)
(***************************************************************************)
Min(a, b) == IF a <= b THEN a ELSE b

\* _build_consumption_query as the walker calls it: a tail query while the
\* cursor is None, else a forward query whose after clause is left out when
\* the cursor is falsy (the empty string, Some(0)).
BuildQuery(c) ==
    IF IsNull(c) THEN [size |-> "last", after |-> Null]
    ELSE [size |-> "first", after |-> IF Val(c) = 0 THEN Null ELSE c]

\* oldest_in_page = min(first_date, last_date)
OldestInPage(edges) ==
    Min(Instant(edges[1].from), Instant(edges[Len(edges)].from))

\* A range filter that drops the record at since too.
FromSinceStrict(edges, s) == SelectSeq(edges, LAMBDA e : Instant(e.from) > s)

FromSince(edges, s) == SelectSeq(edges, LAMBDA e : Instant(e.from) >= s)

\* A filter that drops the records older than since only.
ClipSince(edges, s, u) == SelectSeq(edges, LAMBDA e : Instant(e.from) >= s)

\* A filter that keeps what either bound lets through.
ClipEither(edges, s, u) ==
    SelectSeq(edges, LAMBDA e : Instant(e.from) >= s \/ Instant(e.from) <= u)

\* The final filter: since <= from <= until.
Clip(edges, s, u) ==
    SelectSeq(edges, LAMBDA e : Instant(e.from) >= s /\ Instant(e.from) <= u)

\* The shapes of a body.  "ok": every field the loop reads is there.
\* "keyerror": a key on the path data.viewer.home.consumption, or edges or
\* pageInfo below it, is missing.  "nodata": data is null.  "badedge": the
\* first edge has no node or no from.  "nocursor": pageInfo has no endCursor.
\* "badmiddle": between the first and the last edge, which are the edges of
\* the response, there is one more edge that has no node.
Shapes == {"ok", "keyerror", "nodata", "badedge", "nocursor", "badmiddle"}

\* The exception that leaves the loop body uncaught: the except clause
\* covers the three subscripts of the envelope and catches KeyError only.
Uncaught(shape, step) ==
    CASE shape = "nodata" /\ step = "envelope" -> "TypeError"
      [] shape = "badedge" /\ step = "range" -> "KeyError"
      [] shape = "nocursor" /\ step = "cursor" -> "KeyError"
      [] OTHER -> "none"

\* The KeyError of edge['node'] on an edge that has no node.  Both variants
\* read every edge in the comprehension of the range stop; the SQLite
\* variant reads every edge again where it extends all_records, inside the
\* loop; the DuckDB variant extends all_edges with the edges as they are
\* and reads them where it builds the frame, after the loop.
NodeError(v, shape, step) ==
    CASE shape = "badmiddle" /\ step = "comprehension" -> "KeyError"
      [] shape = "badmiddle" /\ step = "extend" /\ v = "sqlite" -> "KeyError"
      [] OTHER -> "none"

\* The edges without a node that extending with a page adds to all_edges.
NodelessEdges(shape) == IF shape = "badmiddle" THEN 1 ELSE 0

\* An absent flag counts as true.
HasNextUnlessFalse(resp) == resp.hasNextPage # "false"

\* page_info.get('hasNextPage', False): an absent flag counts as false.
HasNext(resp) == resp.hasNextPage = "true"

\* The body of the loop after the response came: what is accumulated, the
\* cursor, whether the loop goes on, and the exception that ended it.
HandlePageIn(v, resp, acc, bad, cur, s) ==
    IF Uncaught(resp.shape, "envelope") # "none"
    THEN [all_edges |-> acc, bad |-> bad, cursor |-> cur, more |-> FALSE,
          crash |-> Uncaught(resp.shape, "envelope")]
    ELSE IF resp.shape = "keyerror" \/ Len(resp.edges) = 0
    THEN [all_edges |-> acc, bad |-> bad, cursor |-> cur, more |-> FALSE,
          crash |-> "none"]
    ELSE IF Uncaught(resp.shape, "range") # "none"
    THEN [all_edges |-> acc, bad |-> bad, cursor |-> cur, more |-> FALSE,
          crash |-> Uncaught(resp.shape, "range")]
    ELSE IF OldestInPage(resp.edges) < s
    THEN IF NodeError(v, resp.shape, "comprehension") # "none"
         THEN [all_edges |-> acc, bad |-> bad, cursor |-> cur, more |-> FALSE,
               crash |-> NodeError(v, resp.shape, "comprehension")]
         ELSE [all_edges |-> acc \o FromSince(resp.edges, s), bad |-> bad,
               cursor |-> cur, more |-> FALSE, crash |-> "none"]
    ELSE IF NodeError(v, resp.shape, "extend") # "none"
    THEN [all_edges |-> acc, bad |-> bad, cursor |-> cur, more |-> FALSE,
          crash |-> NodeError(v, resp.shape, "extend")]
    ELSE IF ~HasNext(resp)
    THEN [all_edges |-> acc \o resp.edges, bad |-> bad + NodelessEdges(resp.shape),
          cursor |-> cur, more |-> FALSE, crash |-> "none"]
    ELSE IF Uncaught(resp.shape, "cursor") # "none"
    THEN [all_edges |-> acc \o resp.edges, bad |-> bad + NodelessEdges(resp.shape),
          cursor |-> cur, more |-> FALSE,
          crash |-> Uncaught(resp.shape, "cursor")]
    ELSE [all_edges |-> acc \o resp.edges, bad |-> bad + NodelessEdges(resp.shape),
          cursor |-> resp.endCursor, more |-> TRUE, crash |-> "none"]

\* The loop body of the variant that runs.
HandlePage(resp, acc, bad, cur, s) == HandlePageIn(variant, resp, acc, bad, cur, s)

\* An exception raised in the loop body and caught by nobody.
ResponseError(type) == [type |-> type, attempts |-> 0, cause |-> "response"]

\* A resolver that prunes the stored rows older than the window it resolved.
BeginFetchPruning(from, sinceArg, untilArg, cap, readOK) ==
    /\ pc \in from
    /\ dbCreated
    /\ readOK \/ IsNull(sinceArg)
    /\ IsNull(cap) \/ variant = "duckdb"
    /\ LET u == ResolveUntil(untilArg, now)
           last == GetLastTimestamp(variant, hourly, readOK)
           sn == ResolveSince(sinceArg, last, u)
       IN /\ until' = u
          /\ since' = sn
          /\ firstSince' = IF ~IsNull(sinceArg) \/ ~allDefault THEN Null
                           ELSE IF IsNull(firstSince) THEN Some(sn) ELSE firstSince
    /\ max_records' = cap
    /\ all_edges' = <<>>
    /\ cursor' = Null
    /\ page_count' = 0
    /\ requests' = <<>>
    /\ batch' = <<>>
    /\ explicit' = ~IsNull(sinceArg)
    /\ readFailed' = ~readOK
    /\ startMax' = MaxStoredInstant(hourly)
    /\ allDefault' = (allDefault /\ IsNull(sinceArg))
    /\ lastPage' = <<>>
    /\ lastMore' = FALSE
    /\ dirty' = FALSE
    /\ clipped' = FALSE
    /\ raised' = NoError
    /\ pc' = "loop"
    /\ hourly' = {r \in hourly : Instant(r.from_time) >= since'}
    /\ UNCHANGED <<variant, dbCreated, daily, monthly, transVars, envVars, readVars, mergeVars, edgeVars>>

\* fetch_consumption_data up to the loop: the window is resolved and the
\* walk's locals are set.
BeginFetch(from, sinceArg, untilArg, cap, readOK) ==
    /\ pc \in from
    /\ dbCreated
    /\ readOK \/ IsNull(sinceArg)
    /\ IsNull(cap) \/ variant = "duckdb"
    /\ LET u == ResolveUntil(untilArg, now)
           last == GetLastTimestamp(variant, hourly, readOK)
           sn == ResolveSince(sinceArg, last, u)
       IN /\ until' = u
          /\ since' = sn
          /\ firstSince' = IF ~IsNull(sinceArg) \/ ~allDefault THEN Null
                           ELSE IF IsNull(firstSince) THEN Some(sn) ELSE firstSince
    /\ max_records' = cap
    /\ all_edges' = <<>>
    /\ cursor' = Null
    /\ page_count' = 0
    /\ requests' = <<>>
    /\ batch' = <<>>
    /\ explicit' = ~IsNull(sinceArg)
    /\ readFailed' = ~readOK
    /\ startMax' = MaxStoredInstant(hourly)
    /\ allDefault' = (allDefault /\ IsNull(sinceArg))
    /\ lastPage' = <<>>
    /\ lastMore' = FALSE
    /\ dirty' = FALSE
    /\ clipped' = FALSE
    /\ raised' = NoError
    /\ pc' = "loop"
    /\ UNCHANGED <<variant, storeVars, transVars, envVars, readVars, mergeVars, edgeVars>>

\* if max_records and len(all_edges) >= max_records: a cap of None or of 0
\* is falsy and never reached.
CapReached(cap, n) == ~IsNull(cap) /\ Val(cap) # 0 /\ n >= Val(cap)

\* The head of the loop: the cap, then the query and the call of
\* _make_request.
LoopHead ==
    /\ pc = "loop"
    /\ IF CapReached(max_records, Len(all_edges) + bad_edges)
       THEN /\ pc' = "filter"
            /\ UNCHANGED <<transVars, page_count, requests>>
       ELSE /\ page_count < MaxPages
            /\ page_count' = page_count + 1
            /\ requests' = Append(requests, BuildQuery(cursor))
            /\ pc' = "request"
            /\ BeginRequest("page", DefaultRetries)
    /\ UNCHANGED <<variant, storeVars, raised, envVars, histVars, readVars, mergeVars, edgeVars>>
    /\ UNCHANGED <<since, until, max_records, all_edges, cursor, batch>>

\* The attempt that returns 200 to the walker, and the rest of the loop body.
PageOK(resp) ==
    /\ pc = "request"
    /\ caller = "page"
    /\ InLoop(attempt, retries)
    /\ IsSuccess(resp.status)
    /\ returned' = resp.status
    /\ LET r == HandlePage(resp, all_edges, bad_edges, cursor, since)
       IN IF r.crash # "none"
          THEN /\ pc' = "failed"
               /\ raised' = ResponseError(r.crash)
               /\ all_edges' = <<>>
               /\ bad_edges' = 0
               /\ cursor' = Null
          ELSE /\ all_edges' = r.all_edges
               /\ bad_edges' = r.bad
               /\ cursor' = r.cursor
               /\ pc' = IF r.more THEN "loop" ELSE "filter"
               /\ UNCHANGED raised
    /\ lastPage' = (IF resp.shape = "ok" THEN resp.edges ELSE <<>>)
    /\ lastMore' = (resp.shape = "ok" /\ resp.hasNextPage = "true")
    /\ EndRequest
    /\ UNCHANGED <<variant, storeVars, envVars>>
    /\ UNCHANGED <<since, until, max_records, page_count, requests, batch>>
    /\ UNCHANGED <<explicit, readFailed, startMax, firstSince, allDefault, dirty, clipped, readVars, mergeVars>>

\* After the loop: the final filter, and the return of the filtered records.
FinalFilter ==
    /\ pc = "filter"
    /\ IF bad_edges > 0
       THEN /\ pc' = "failed"
            /\ raised' = ResponseError("KeyError")
            /\ batch' = <<>>
            /\ UNCHANGED clipped
       ELSE /\ pc' = "fetched"
            /\ batch' = Clip(all_edges, since, until)
            /\ clipped' = (Len(batch') < Len(all_edges))
            /\ UNCHANGED raised
    /\ all_edges' = <<>>
    /\ bad_edges' = 0
    /\ cursor' = Null
    /\ lastPage' = <<>>
    /\ lastMore' = FALSE
    /\ UNCHANGED <<variant, storeVars, transVars, envVars>>
    /\ UNCHANGED <<since, until, max_records, page_count, requests>>
    /\ UNCHANGED <<explicit, readFailed, startMax, firstSince, allDefault, dirty, readVars, mergeVars>>

\* collect's call of save_data on what the walk returned.
SaveData ==
    /\ pc = "fetched"
    /\ LET st == Saved(variant, Store, batch)
       IN /\ hourly' = st.hourly
          /\ daily' = st.daily
          /\ monthly' = st.monthly
    /\ dirty' = (Len(batch) # 0)
    /\ clipped' = FALSE
    /\ pc' = "done"
    /\ DropWalk
    /\ UNCHANGED <<variant, dbCreated, transVars, raised, envVars, readVars, mergeVars, edgeVars>>
    /\ UNCHANGED <<explicit, readFailed, startMax, firstSince, allDefault, lastPage, lastMore>>

(***************************************************************************)
(* The source.  It publishes the node of an hour when the hour has come,   *)
(* may revise the reading of a published hour, and serves its nodes newest *)
(* first, PageSize to a page.                                              *)
(***************************************************************************)
Source0 ==
    << MkNode(SatNight, IntervalHours, Measured),
       MkNode(SunFirst, IntervalHours, Measured),
       MkNode(SunSecond, IntervalHours, Revised),
       MkNode(NovFirst, IntervalHours, Measured) >>

Visible(src, t) == SelectSeq(src, LAMBDA n : Instant(n.from) <= t)

Reverse(q) == [i \in 1..Len(q) |-> q[Len(q) + 1 - i]]

\* The page a query asks for: the first for a tail query or a forward query
\* without after, else the one after the cursor's.
PageIndex(q) == IF IsNull(q.after) THEN 1 ELSE Val(q.after) + 1

HonestPage(src, t, k) ==
    LET newest == Reverse(Visible(src, t))
        lo == (k - 1) * PageSize + 1
        hi == Min(k * PageSize, Len(newest))
    IN [shape |-> "ok", status |-> "200",
        edges |-> IF lo > hi THEN <<>> ELSE SubSeq(newest, lo, hi),
        hasNextPage |-> IF k * PageSize < Len(newest) THEN "true" ELSE "false",
        endCursor |-> Some(k)]

\* A response without the expected envelope.
Malformed ==
    [shape |-> "keyerror", status |-> "200e", edges |-> <<>>,
     hasNextPage |-> "absent", endCursor |-> Null]

\* Between two runs the hour passes to the next one the source has a node
\* for.
Tick ==
    /\ pc \in {"idle", "done", "failed"}
    /\ \E i \in 1..Len(source) :
        /\ Instant(source[i].from) > now
        /\ \A j \in 1..Len(source) :
              Instant(source[j].from) > now => Instant(source[i].from) <= Instant(source[j].from)
        /\ now' = Instant(source[i].from)
    /\ UNCHANGED <<variant, storeVars, pc, transVars, raised, source, walkVars, histVars, readVars, mergeVars, edgeVars>>

\* Between two runs the source revises the reading of a published hour.
Revise(i, n) ==
    /\ pc \in {"idle", "done", "failed"}
    /\ i \in 1..Len(source)
    /\ Instant(source[i].from) <= now
    /\ n \in Nodes
    /\ n.from = source[i].from /\ n.to = source[i].to
    /\ n # source[i]
    /\ source' = [source EXCEPT ![i] = n]
    /\ UNCHANGED <<variant, storeVars, pc, transVars, raised, now, walkVars, histVars, readVars, mergeVars, edgeVars>>

(***************************************************************************)
(* The collector's runs against the source: collect, again and again.      *)
(***************************************************************************)
ExplicitSinces == {Null, Some(1)}
ExplicitUntils == {Null, Some(3)}
\* The failures Transport meets in a run, and the hours the source revises.
RunFailures == {"504"}
RevisedHours == {1}

InitTrans ==
    /\ caller = "home"
    /\ retries = DefaultRetries
    /\ attempt = 0
    /\ lastError = "none"
    /\ waited = 0
    /\ returned = "none"
    /\ raised = NoError

InitWalk ==
    /\ since = 0
    /\ until = 0
    /\ max_records = Null
    /\ all_edges = <<>>
    /\ cursor = Null
    /\ page_count = 0
    /\ requests = <<>>
    /\ batch = <<>>
    /\ explicit = FALSE
    /\ readFailed = FALSE
    /\ startMax = Null
    /\ firstSince = Null
    /\ allDefault = TRUE
    /\ lastPage = <<>>
    /\ lastMore = FALSE
    /\ dirty = FALSE
    /\ clipped = FALSE
    /\ before = EmptyStore
    /\ seen = Null
    /\ written = 0
    /\ bad_edges = 0

InitEnv ==
    /\ now = Instant(Source0[1].from)
    /\ source = Source0

Init ==
    /\ variant \in Variants
    /\ dbCreated = TRUE
    /\ hourly = {}
    /\ daily = <<>>
    /\ monthly = <<>>
    /\ pc = "idle"
    /\ InitTrans
    /\ InitEnv
    /\ InitWalk

Next ==
    \/ \E sa \in ExplicitSinces, ua \in ExplicitUntils, ok \in BOOLEAN :
          BeginFetch({"idle", "done", "failed"}, sa, ua, Null, ok)
    \/ LoopHead
    \/ \E o \in RunFailures : AttemptFail(o)
    \/ Exhausted
    \/ PageOK(HonestPage(source, now, PageIndex(requests[Len(requests)])))
    \/ PageOK(Malformed)
    \/ FinalFilter
    \/ SaveData
    \/ Tick
    \/ \E i \in RevisedHours, n \in Nodes : Revise(i, n)

Spec == Init /\ [][Next]_vars

(***************************************************************************)
(* The walker alone: fetch_consumption_data called on a store that holds   *)
(* some hours already, against a source that may answer anything.          *)
(***************************************************************************)
\* The batches that filled the store before.
EarlierBatches ==
    { <<>>,
      << MkNode(SunFirst, IntervalHours, Measured) >>,
      << MkNode(SunFirst, IntervalHours, Measured),
         MkNode(SunSecond, IntervalHours, Revised) >> }

\* The nodes of the pages: an hour before, at and after the end of summer time.
WalkNodes ==
    { MkNode(SunFirst, IntervalHours, Measured),
      MkNode(SunSecond, IntervalHours, Revised),
      MkNode(NovFirst, IntervalHours, Measured) }

WalkSinces == {Null, Some(3)}
WalkUntils == {Null, Some(3)}
WalkCaps == {Null, Some(0), Some(2)}

\* Every answer with the expected envelope, the one without, and the
\* answers that lack a field further in.
WalkResponses ==
    { [shape |-> "ok", status |-> "200", edges |-> e, hasNextPage |-> "true",
       endCursor |-> c] :
        e \in SeqsUpTo(WalkNodes, PageSize), c \in {Null, Some(0), Some(1)} }
    \cup
    { [shape |-> "ok", status |-> "200", edges |-> e, hasNextPage |-> h,
       endCursor |-> Null] :
        e \in SeqsUpTo(WalkNodes, PageSize), h \in {"false", "absent"} }
    \cup
    { [shape |-> sh, status |-> "200e", edges |-> e, hasNextPage |-> h,
       endCursor |-> Null] :
        sh \in {"nodata", "badedge", "nocursor"},
        e \in SeqsUpTo(WalkNodes, 1), h \in {"true", "false"} }
    \cup
    { [shape |-> "badmiddle", status |-> "200e", edges |-> e, hasNextPage |-> h,
       endCursor |-> Some(1)] :
        e \in [1..2 -> WalkNodes], h \in {"true", "false"} }
    \cup {Malformed}

InitWalker ==
    /\ variant \in Variants
    /\ dbCreated = TRUE
    /\ \E b \in EarlierBatches :
          LET st == Saved(variant, EmptyStore, b)
          IN hourly = st.hourly /\ daily = st.daily /\ monthly = st.monthly
    /\ pc = "idle"
    /\ InitTrans
    /\ now = Instant(NovFirst)
    /\ source = Source0
    /\ InitWalk

NextWalker ==
    \/ \E sa \in WalkSinces, ua \in WalkUntils, cap \in WalkCaps, ok \in BOOLEAN :
          BeginFetch({"idle"}, sa, ua, cap, ok)
    \/ LoopHead
    \/ \E r \in WalkResponses : PageOK(r)
    \/ FinalFilter

SpecWalk == InitWalker /\ [][NextWalker]_vars

(***************************************************************************)
(* The store alone: save_data called with any batch on a constructed       *)
(* collector.                                                              *)
(***************************************************************************)
InitStore ==
    /\ variant \in Variants
    /\ dbCreated = TRUE
    /\ hourly = {}
    /\ daily = <<>>
    /\ monthly = <<>>
    /\ pc = "idle"
    /\ InitTrans
    /\ InitEnv
    /\ InitWalk

\* save_data(records) called directly.
MergeBatch(records) ==
    /\ pc = "idle"
    /\ LET st == Saved(variant, Store, records)
       IN /\ hourly' = st.hourly
          /\ daily' = st.daily
          /\ monthly' = st.monthly
    /\ UNCHANGED <<variant, dbCreated, pc, transVars, raised, envVars, walkVars, histVars, readVars, mergeVars, edgeVars>>

NextStore == \E b \in Batches : MergeBatch(b)

SpecStore == InitStore /\ [][NextStore]_vars

(***************************************************************************)
(* save_data statement by statement, while the query service reads and the *)
(* storage may fail.                                                       *)
(***************************************************************************)
\* The batches collect hands to save_data.
MergeBatches ==
    { <<>>,
      << MkNode(SatNight, IntervalHours, Measured) >>,
      << MkNode(SatNight, IntervalHours, Pending) >>,
      << MkNode(SunFirst, IntervalHours, Measured),
         MkNode(SunFirst, IntervalHours, Revised) >>,
      << MkNode(SunSecond, IntervalHours, Revised),
         MkNode(NovFirst, IntervalHours, Measured) >> }

\* An exception of the database library; save_data and _update_aggregations
\* catch nothing.
StorageError == [type |-> "StorageError", attempts |-> 0, cause |-> "storage"]

\* DuckDB commits each statement as it is executed; sqlite3 opens a
\* transaction at the first INSERT and keeps it until con.commit().
CommitsEachStatement(v) == v = "duckdb"

\* The query service connects read-only.  DuckDB refuses the connection
\* while the collector's connection is open (between the two statements of
\* _update_aggregations); SQLite lets it read the committed tables.
ReaderAdmitted(v, p) == v = "sqlite" \/ p # "monthly"

\* collect has the records of the walk and calls save_data.
Collected(records) ==
    /\ pc \in {"idle", "done", "failed"}
    /\ dbCreated
    /\ batch' = records
    /\ before' = Store
    /\ seen' = Null
    /\ written' = 0
    /\ UNCHANGED edgeVars
    /\ dirty' = FALSE
    /\ raised' = NoError
    /\ pc' = "fetched"
    /\ UNCHANGED <<variant, storeVars, transVars, envVars>>
    /\ UNCHANGED <<since, until, max_records, all_edges, cursor, page_count, requests>>
    /\ UNCHANGED <<explicit, readFailed, startMax, firstSince, allDefault, lastPage, lastMore, clipped>>

\* A merge that writes what the walk has accumulated while it still walks.
UpsertWhileWalking ==
    /\ pc = "loop"
    /\ hourly' = UpsertAll(hourly, variant, all_edges)
    /\ hourly' # hourly
    /\ dirty' = TRUE
    /\ UNCHANGED <<variant, dbCreated, daily, monthly, pc, transVars, raised, envVars, readVars, mergeVars, edgeVars>>
    /\ UNCHANGED walkVars
    /\ UNCHANGED <<explicit, readFailed, startMax, firstSince, allDefault, lastPage, lastMore, clipped>>

\* save_data up to its call of _update_aggregations: the early return, or
\* the upsert and its commit.
Upsert ==
    /\ pc = "fetched"
    /\ IF IsEmptyBatch(batch)
       THEN /\ pc' = "done"
            /\ UNCHANGED <<hourly, dirty>>
       ELSE /\ hourly' = UpsertAll(hourly, variant, batch)
            /\ dirty' = TRUE
            /\ pc' = "aggregate"
    /\ batch' = <<>>
    /\ UNCHANGED <<variant, dbCreated, daily, monthly, transVars, raised, envVars, readVars, mergeVars, edgeVars>>
    /\ UNCHANGED <<since, until, max_records, all_edges, cursor, page_count, requests>>
    /\ UNCHANGED <<explicit, readFailed, startMax, firstSince, allDefault, lastPage, lastMore, clipped>>

\* The daily statement of _update_aggregations.
RefreshDaily ==
    /\ pc = "aggregate"
    /\ daily' = IF CommitsEachStatement(variant) THEN UpdateDaily(daily, hourly) ELSE daily
    /\ pc' = "monthly"
    /\ UNCHANGED <<variant, dbCreated, hourly, monthly, transVars, raised, envVars>>
    /\ UNCHANGED <<walkVars, histVars, readVars, mergeVars, edgeVars>>

\* The monthly statement of _update_aggregations and the end of save_data.
RefreshMonthly ==
    /\ pc = "monthly"
    /\ daily' = UpdateDaily(daily, hourly)
    /\ monthly' = UpdateMonthly(monthly, hourly)
    /\ pc' = "done"
    /\ UNCHANGED <<variant, dbCreated, hourly, transVars, raised, envVars>>
    /\ UNCHANGED <<walkVars, histVars, readVars, mergeVars, edgeVars>>

\* The database raises: in the upsert, on connecting for the refresh, or in
\* the monthly statement.  What is not committed is rolled back, what is
\* committed stays; the exception ends the run.
StorageFail ==
    /\ pc \in {"fetched", "aggregate", "monthly"}
    /\ pc = "fetched" => ~IsEmptyBatch(batch)
    /\ pc' = "failed"
    /\ raised' = StorageError
    /\ batch' = <<>>
    /\ UNCHANGED <<variant, storeVars, transVars, envVars, histVars, readVars, mergeVars, edgeVars>>
    /\ UNCHANGED <<since, until, max_records, all_edges, cursor, page_count, requests>>

\* The query service reads the two aggregate tables.
ReadAggregates ==
    /\ pc \in {"fetched", "aggregate", "monthly", "done", "failed"}
    /\ ReaderAdmitted(variant, pc)
    /\ seen' = Some(<<daily, monthly>>)
    /\ seen' # seen
    /\ UNCHANGED <<variant, storeVars, pc, transVars, raised, envVars, walkVars, histVars, before,
                   mergeVars, edgeVars>>

InitMerge ==
    /\ variant \in Variants
    /\ dbCreated = TRUE
    /\ hourly = {}
    /\ daily = <<>>
    /\ monthly = <<>>
    /\ pc = "idle"
    /\ InitTrans
    /\ InitEnv
    /\ InitWalk

NextMerge ==
    \/ \E b \in MergeBatches : Collected(b)
    \/ Upsert
    \/ RefreshDaily
    \/ RefreshMonthly
    \/ StorageFail
    \/ ReadAggregates

SpecMerge == InitMerge /\ [][NextMerge]_vars

(***************************************************************************)
(* collect, run after run, with save_data statement by statement.          *)
(***************************************************************************)
NextRun ==
    \/ \E sa \in ExplicitSinces, ua \in ExplicitUntils, ok \in BOOLEAN :
          BeginFetch({"idle", "done", "failed"}, sa, ua, Null, ok)
    \/ LoopHead
    \/ \E o \in RunFailures : AttemptFail(o)
    \/ Exhausted
    \/ PageOK(HonestPage(source, now, PageIndex(requests[Len(requests)])))
    \/ PageOK(Malformed)
    \/ FinalFilter
    \/ Upsert
    \/ RefreshDaily
    \/ RefreshMonthly
    \/ Tick
    \/ \E i \in RevisedHours, n \in Nodes : Revise(i, n)

SpecRun == Init /\ [][NextRun]_vars

(***************************************************************************)
(* save_data row by row: a merge that stops part way and leaves its rows,  *)
(* and the merge of the same batch that follows it.                        *)
(***************************************************************************)
\* The store was filled by two earlier merges and save_data is called with
\* any batch.
InitRerun ==
    /\ variant \in Variants
    /\ dbCreated = TRUE
    /\ \E b0 \in MergeBatches, b1 \in MergeBatches :
          LET st == Saved(variant, Saved(variant, EmptyStore, b0), b1)
          IN hourly = st.hourly /\ daily = st.daily /\ monthly = st.monthly
    /\ pc = "fetched"
    /\ InitTrans
    /\ InitEnv
    /\ since = 0 /\ until = 0 /\ max_records = Null
    /\ all_edges = <<>> /\ cursor = Null /\ page_count = 0 /\ requests = <<>>
    /\ batch \in Batches
    /\ explicit = FALSE /\ readFailed = FALSE /\ startMax = Null
    /\ firstSince = Null /\ allDefault = TRUE
    /\ lastPage = <<>> /\ lastMore = FALSE
    /\ dirty = FALSE /\ clipped = FALSE
    /\ before = Store
    /\ seen = Null
    /\ written = 0
    /\ bad_edges = 0

\* One pass of the row loop: INSERT OR REPLACE of the next record.
WriteRow ==
    /\ pc = "fetched"
    /\ written < Len(batch)
    /\ hourly' = InsertOrReplace(hourly, ToRow(variant, batch[written + 1]))
    /\ written' = written + 1
    /\ dirty' = TRUE
    /\ UNCHANGED <<variant, dbCreated, daily, monthly, pc, transVars, raised, envVars, walkVars>>
    /\ UNCHANGED <<explicit, readFailed, startMax, firstSince, allDefault, lastPage, lastMore, clipped>>
    /\ UNCHANGED <<readVars, edgeVars>>

\* The row loop is done (or the batch was empty): the refresh, and the end
\* of save_data.
FinishMerge ==
    /\ pc = "fetched"
    /\ written = Len(batch)
    /\ IF IsEmptyBatch(batch)
       THEN UNCHANGED <<daily, monthly>>
       ELSE /\ daily' = UpdateDaily(daily, hourly)
            /\ monthly' = UpdateMonthly(monthly, hourly)
    /\ pc' = "done"
    /\ UNCHANGED <<variant, dbCreated, hourly, transVars, raised, envVars, walkVars, histVars>>
    /\ UNCHANGED <<readVars, mergeVars, edgeVars>>

\* The merge stops in the row loop and the rows written so far stay.
Interrupt ==
    /\ pc = "fetched"
    /\ ~IsEmptyBatch(batch)
    /\ pc' = "failed"
    /\ raised' = StorageError
    /\ UNCHANGED <<variant, storeVars, transVars, envVars, walkVars, histVars, readVars, mergeVars, edgeVars>>

\* save_data is called again with the whole batch.
Rerun ==
    /\ pc = "failed"
    /\ LET st == Saved(variant, Store, batch)
       IN /\ hourly' = st.hourly
          /\ daily' = st.daily
          /\ monthly' = st.monthly
    /\ dirty' = TRUE
    /\ raised' = NoError
    /\ pc' = "done"
    /\ UNCHANGED <<variant, dbCreated, transVars, envVars, walkVars, readVars, mergeVars, edgeVars>>
    /\ UNCHANGED <<explicit, readFailed, startMax, firstSince, allDefault, lastPage, lastMore, clipped>>

NextRerun ==
    \/ WriteRow
    \/ FinishMerge
    \/ Interrupt
    \/ Rerun

SpecRerun == InitRerun /\ [][NextRerun]_vars

(***************************************************************************)
(* collect against a source that keeps to the protocol: every answer that  *)
(* comes is a page of the series, newest first.                            *)
(***************************************************************************)
NextHonest ==
    \/ \E sa \in ExplicitSinces, ua \in ExplicitUntils, ok \in BOOLEAN :
          BeginFetch({"idle", "done", "failed"}, sa, ua, Null, ok)
    \/ LoopHead
    \/ \E o \in RunFailures : AttemptFail(o)
    \/ Exhausted
    \/ PageOK(HonestPage(source, now, PageIndex(requests[Len(requests)])))
    \/ FinalFilter
    \/ SaveData
    \/ Tick
    \/ \E i \in RevisedHours, n \in Nodes : Revise(i, n)

\* The steps of fetch_consumption_data that need no failure to happen.
WalkStep ==
    \/ LoopHead
    \/ PageOK(HonestPage(source, now, PageIndex(requests[Len(requests)])))
    \/ Exhausted
    \/ FinalFilter

SpecHonest == Init /\ [][NextHonest]_vars

(***************************************************************************)
(* Transport alone: the collector under construction, any retry count.     *)
(***************************************************************************)
InitTransport ==
    /\ variant \in Variants
    /\ dbCreated = FALSE
    /\ hourly = {}
    /\ daily = <<>>
    /\ monthly = <<>>
    /\ pc = "new"
    /\ InitTrans
    /\ InitEnv
    /\ InitWalk

NextTransport ==
    \/ \E R \in 0..MaxRetries : BeginGetHomeId(R)
    \/ InitWithHomeId
    \/ \E o \in Outcomes : AttemptFail(o)
    \/ \E homes \in 0..1, o \in Outcomes : HomeAttemptOK(homes, o)
    \/ Exhausted
    \/ \E ok \in BOOLEAN : BeginFetch({"idle", "failed"}, Null, Null, Null, ok)

SpecTransport == InitTransport /\ [][NextTransport]_vars

(***************************************************************************)
(* Properties.                                                             *)
(***************************************************************************)
StoredKeys == {KeyOf(r) : r \in hourly}

\* C1: after every completed run the daily and monthly tables are exactly
\* what the two SELECTs yield over the stored records.
AggregateConsistency ==
    pc = "done" => daily = DailySelect(hourly) /\ monthly = MonthlySelect(hourly)

\* C2: on every store and for every batch, saving the batch twice leaves the
\* three tables as saving it once.
MergeIdempotent ==
    \A b \in Batches :
        Saved(variant, Saved(variant, Store, b), b) = Saved(variant, Store, b)

\* A store on which some batch overwrites a stored key.
MergeIdempotentWitness ==
    \E b \in Batches :
        /\ Len(b) = MaxBatch
        /\ KeyOf(ToRow(variant, b[1])) \in StoredKeys
        /\ Saved(variant, Store, b) # Store

SameKey(v, n1, n2) == KeyOf(ToRow(v, n1)) = KeyOf(ToRow(v, n2))

OneRowHolding(h, v, n) ==
    {r \in h : KeyOf(r) = KeyOf(ToRow(v, n))} = {ToRow(v, n)}

RangeCorrect ==
    (pc = "loop" /\ ~explicit /\ ~readFailed /\ ~IsNull(startMax)) =>
        since = Val(startMax) + IntervalHours

\* The since a default run would resolve now.
NextDefaultSince ==
    ResolveSince(Null, GetLastTimestamp(variant, hourly, TRUE), now)

\* A published hour, not older than the first since and not newer than the
\* stored maximum, that is not stored and lies before every later default
\* window.
IsGap(n) ==
    /\ Instant(n.from) <= now
    /\ ~IsNull(firstSince) /\ Val(firstSince) <= Instant(n.from)
    /\ hourly # {} /\ Instant(n.from) <= Val(MaxStoredInstant(hourly))
    /\ Instant(n.from) < NextDefaultSince
    /\ KeyOf(ToRow(variant, n)) \notin StoredKeys

\* C5: after runs that all resolved their since from the store, no hour of
\* the source is a gap.
NoGap ==
    (pc = "done" /\ allDefault) => \A i \in 1..Len(source) : ~IsGap(source[i])

\* C6: in a run with no since given on a readable, non-empty store, every
\* record handed to save_data is newer than the greatest from_time stored
\* when the run began.
NoRefetch ==
    (pc = "fetched" /\ ~explicit /\ ~readFailed /\ ~IsNull(startMax)) =>
        \A i \in 1..Len(batch) : Instant(batch[i].from) > Val(startMax)

HasOlder(edges, s) == \E i \in 1..Len(edges) : Instant(edges[i].from) < s
HasNotOlder(edges, s) == \E i \in 1..Len(edges) : Instant(edges[i].from) >= s

\* C7: no page is requested after a page whose oldest record is older than
\* since.
PaginationTerminates == HasOlder(lastPage, since) => pc # "request"

\* The step in which a page comes back to the walker.
PageStep == pc = "request" /\ caller = "page" /\ pc' \in {"loop", "filter"}

\* C8: a page with records older and not older than since ends the walk, and
\* of it exactly the records not older than since are kept, after those of
\* the earlier pages.
RangeSatisfiedFiltering ==
    [][(PageStep /\ HasOlder(lastPage', since) /\ HasNotOlder(lastPage', since)) =>
          /\ all_edges' = all_edges \o FromSince(lastPage', since)
          /\ pc' = "filter"]_vars

\* C9 as stated: at most R requests, and the error of an exhausted call
\* carries the last observed error.
TransportExhaustion ==
    /\ attempt <= retries
    /\ (pc = "failed" /\ raised.type = "Exception") =>
          (attempt = retries /\ raised.cause = lastError)

\* C9 as amended: at most R requests, and the error of an exhausted call
\* names the retry count and carries no cause.
TransportExhaustionCount ==
    /\ attempt <= retries
    /\ (pc = "failed" /\ raised.type = "Exception") =>
          (attempt = retries /\ raised.attempts = retries /\ raised.cause = "none")

\* A call that failed on its last attempt with a transport exception.
TransportExhaustionWitness ==
    /\ pc = "failed"
    /\ raised.type = "Exception"
    /\ retries > 1
    /\ lastError = "exc"

\* C10: a run whose Transport runs out of attempts on a page fails there,
\* with nothing it fetched kept and no table written by it before or after.
NoMergeOnExhaustion ==
    [][/\ (pc \in {"loop", "request", "filter", "failed"}) => Store' = Store
       /\ (pc = "request" /\ ~InLoop(attempt, retries) /\ pc' # pc) => pc' = "failed"
       /\ (pc' = "failed") =>
             /\ pc \in {"request", "failed"}
             /\ ~dirty'
             /\ all_edges' = <<>> /\ batch' = <<>>]_vars

\* A run that failed on its second page.
NoMergeOnExhaustionWitness ==
    pc = "failed" /\ page_count > 1 /\ hourly # {}

\* C11: save_data called with no records returns at once: no table changes,
\* and _update_aggregations is entered only by a call that wrote records.
EmptyMergeNoOp ==
    [][/\ (pc = "fetched" /\ Len(batch) = 0) =>
             (Store' = Store /\ pc' \in {"fetched", "done"})
       /\ (pc' \in {"aggregate", "monthly"}) => dirty']_vars

\* An empty save_data has returned on a store whose daily table the refresh
\* would have changed.
EmptyMergeNoOpWitness ==
    /\ pc = "done"
    /\ ~dirty
    /\ hourly # {}
    /\ daily # UpdateDaily(daily, hourly)

\* C12: with no since given and an empty store, the resolved since is the
\* resolved until minus 90 days.
EmptyStoreLookback ==
    (pc = "loop" /\ ~explicit /\ hourly = {}) => since = until - LookbackHours

\* A run on the empty store with an until given and no since.
EmptyStoreLookbackWitness ==
    /\ pc = "loop"
    /\ ~explicit
    /\ hourly = {}
    /\ until # now
    /\ since = until - LookbackHours

BackoffStatuses == {"429", "504"}

\* C13: the attempt with loop index k (from 0) that ends in 429 or 504 is
\* followed by a sleep of 2^k seconds, twice the sleep of the attempt before
\* when that one ended so too, and it is one of at most R attempts.
BackoffSchedule ==
    [][(pc = "request" /\ attempt' = attempt + 1 /\ lastError' \in BackoffStatuses) =>
          /\ waited' = Pow2(attempt)
          /\ attempt' <= retries
          /\ (lastError \in BackoffStatuses) => waited' = 2 * waited]_vars

\* The third attempt in a row that ended in 504.
BackoffScheduleWitness ==
    /\ pc = "request"
    /\ lastError = "504"
    /\ attempt = 3
    /\ waited = 4

\* C14: while attempts remain, an attempt that ended in another failure
\* status or in an exception is followed by the one fixed delay.
FixedDelayRetry ==
    (pc = "request" /\ lastError \in {"500", "exc"} /\ InLoop(attempt, retries)) =>
        waited = ExceptionDelay

\* C15: an attempt that gets status 200, with or without embedded errors, is
\* never counted as failed, and _make_request returns only on such an
\* attempt, leaving the loop.
SuccessReturnsAtOnce ==
    [][/\ lastError' \notin SuccessOutcomes
       /\ (returned = "none" /\ returned' # "none") =>
             /\ pc = "request"
             /\ pc' # "request"
             /\ returned' \in SuccessOutcomes]_vars

\* _make_request has returned a body with embedded errors to _get_home_id.
SuccessReturnsAtOnceWitness ==
    /\ returned = "200e"
    /\ pc = "idle"
    /\ dbCreated

\* C16: every record fetch_consumption_data returns starts within
\* [since, until].
FinalClipping ==
    pc = "fetched" =>
        \A i \in 1..Len(batch) :
            since <= Instant(batch[i].from) /\ Instant(batch[i].from) <= until

\* A walk whose final filter dropped a record and kept one, with until
\* before the newest hour of the source.
FinalClippingWitness ==
    /\ pc = "fetched"
    /\ clipped
    /\ Len(batch) > 0
    /\ until < now

\* C17: no response with a missing field makes the run fail.
UnexpectedShapeRecovered == ~(pc = "failed" /\ raised = ResponseError("KeyError"))

\* C18: what the reader reads is the two aggregate tables as they were when
\* save_data was called, or both as the refresh makes them.
ReaderSeesWhole ==
    ~IsNull(seen) =>
        \/ Val(seen) = <<before.daily, before.monthly>>
        \/ Val(seen) = <<UpdateDaily(before.daily, hourly),
                         UpdateMonthly(before.monthly, hourly)>>

\* C19: a run that found the aggregates equal to the recomputation and ended
\* in a storage error leaves them equal to the recomputation.
FatalLeavesConsistent ==
    (/\ pc = "failed"
     /\ raised = StorageError
     /\ before.daily = DailySelect(before.hourly)
     /\ before.monthly = MonthlySelect(before.hourly)) =>
        (daily = DailySelect(hourly) /\ monthly = MonthlySelect(hourly))

\* C20: a run whose read of MAX(from_time) met a storage error has failed.
StorageFailureFatal == readFailed => pc = "failed"

\* C21: a run goes through its steps in order: the window is resolved, then
\* the pages are walked, then the batch is merged, then the aggregates are
\* refreshed.  Records are written only after the walk has returned, in one
\* step that applies the whole batch and leaves the aggregates alone; the
\* aggregates change only after that step; and no page is requested between
\* the merge and the start of the next run.
PipelineSteps ==
    { <<"idle", "loop">>, <<"done", "loop">>, <<"failed", "loop">>,
      <<"loop", "request">>, <<"loop", "filter">>, <<"request", "loop">>,
      <<"request", "filter">>, <<"request", "failed">>, <<"filter", "fetched">>,
      <<"fetched", "aggregate">>, <<"fetched", "done">>,
      <<"aggregate", "monthly">>, <<"monthly", "done">> }

PipelineOrdering ==
    [][/\ pc' # pc => <<pc, pc'>> \in PipelineSteps
       /\ (since' # since \/ until' # until) => pc' = "loop" /\ pc # "request"
       /\ requests' # requests => pc \in {"idle", "done", "failed", "loop"}
       /\ hourly' # hourly => pc = "fetched"
       /\ pc = "fetched" =>
             /\ hourly' = UpsertAll(hourly, variant, batch)
             /\ daily' = daily /\ monthly' = monthly
       /\ (daily' # daily \/ monthly' # monthly) => pc \in {"aggregate", "monthly"}]_vars

\* A run of two pages has merged its batch and refreshed the aggregates.
PipelineOrderingWitness ==
    /\ pc = "done" /\ dirty
    /\ page_count = MaxPages
    /\ daily # <<>> /\ monthly # <<>>
\* C22: no step removes a stored key: the set of stored (from_time, to_time)
\* keys only grows, and so the greatest stored from_time never decreases,
\* neither as an instant nor in the order MAX(from_time) uses in the store.
RecordsNeverDeleted ==
    [][/\ StoredKeys \subseteq StoredKeys'
       /\ hourly # {} =>
             /\ hourly' # {}
             /\ Val(MaxStoredInstant(hourly')) >= Val(MaxStoredInstant(hourly))
             /\ LET a == SqlMaxFromTime(variant, hourly)
                    b == SqlMaxFromTime(variant, hourly')
                IN \/ a = b
                   \/ IF variant = "duckdb" THEN Instant(a) < Instant(b)
                      ELSE TextLess(a, b)]_vars

\* A merge changed a store that held rows already, and the store holds more
\* than two keys.
RecordsNeverDeletedWitness ==
    /\ pc = "done" /\ dirty
    /\ before.hourly # {}
    /\ before.hourly # hourly
    /\ Cardinality(hourly) >= Cardinality(before.hourly)
    /\ Cardinality(hourly) > 2
\* C23: when a cap is supplied, a page is requested only while fewer records
\* than the cap are accumulated, and the records the walk returns lie within
\* [since, until].
CapStopsRequests ==
    /\ (pc = "request" /\ ~IsNull(max_records)) => Len(all_edges) < Val(max_records)
    /\ (pc = "fetched" /\ ~IsNull(max_records)) =>
          \A i \in 1..Len(batch) :
             since <= Instant(batch[i].from) /\ Instant(batch[i].from) <= until
\* C24: resolving the window, with or without an explicit since or until,
\* on an empty or a filled store, after a good or a failed read, changes
\* neither the hourly table nor the two aggregate tables.
ResolverNoMutation ==
    [][(pc \in {"idle", "done", "failed"} /\ pc' = "loop") =>
          /\ hourly' = hourly /\ daily' = daily /\ monthly' = monthly
          /\ dbCreated' = dbCreated]_vars

\* The window was resolved from a store that holds records, its since taken
\* from the last stored timestamp.
ResolverNoMutationWitness ==
    /\ pc = "loop" /\ page_count = 0
    /\ hourly # {} /\ daily # <<>>
    /\ ~explicit /\ ~readFailed
    /\ since = Val(startMax) + IntervalHours

\* C25: when no home id is given and the account lists no homes, the
\* constructor fails: the database is neither created nor changed, and
\* nothing follows, no run in particular.
NoHomeFatal ==
    [][/\ raised.cause # "no homes"
       /\ raised'.cause = "no homes" =>
             /\ pc' = "failed" /\ raised'.type = "ValueError"
             /\ ~dbCreated' /\ Store' = EmptyStore]_vars

\* The list of homes came empty after a retry.
NoHomeFatalWitness ==
    /\ pc = "failed" /\ raised.cause = "no homes"
    /\ raised.attempts > 1
    /\ ~dbCreated
\* C26: the first request of a walk is a tail request, and every later one
\* is a forward request whose after is the endCursor of the page before.
CursorProtocol ==
    /\ Len(requests) >= 1 => requests[1] = [size |-> "last", after |-> Null]
    /\ (pc = "request" /\ page_count > 1) =>
          requests[Len(requests)] = [size |-> "first", after |-> cursor]

\* The non-null-consumption records of a day and of a month.
DayRows(h, d) == {r \in Included(h) : RowDate(r) = d}
MonthRows(h, m) == {r \in Included(h) : RowMonth(r) = m}

\* C27: right after a refresh every day and every month with a stored
\* non-null-consumption record has its bucket, holding the sums, the mean
\* unit price and the greatest currency of exactly those records of the
\* group, whatever the bucket held before.
RefreshReplaces ==
    (pc = "done" /\ dirty) =>
        /\ \A d \in {RowDate(r) : r \in Included(hourly)} :
              /\ d \in DOMAIN daily
              /\ daily[d].total_consumption = Some(SumField(DayRows(hourly, d), "consumption"))
              /\ daily[d].total_cost = SqlSum(DayRows(hourly, d), "cost")
              /\ daily[d].avg_unit_price = SqlAvg(DayRows(hourly, d), "unit_price")
              /\ daily[d].currency = SqlMaxCurrency(DayRows(hourly, d))
        /\ \A m \in {RowMonth(r) : r \in Included(hourly)} :
              /\ m \in DOMAIN monthly
              /\ monthly[m].total_consumption = Some(SumField(MonthRows(hourly, m), "consumption"))
              /\ monthly[m].total_cost = SqlSum(MonthRows(hourly, m), "cost")
              /\ monthly[m].avg_unit_price = SqlAvg(MonthRows(hourly, m), "unit_price")
              /\ monthly[m].currency = SqlMaxCurrency(MonthRows(hourly, m))

\* A refresh replaced a daily and a monthly bucket that held other values.
RefreshReplacesWitness ==
    /\ pc = "done" /\ dirty
    /\ \E d \in DOMAIN before.daily : daily[d] # before.daily[d]
    /\ \E m \in DOMAIN before.monthly : monthly[m] # before.monthly[m]

\* C28: whatever the order of the edges in a page, a page with an edge older
\* than since ends the walk.
OldestEdgeDecides ==
    [][(PageStep /\ HasOlder(lastPage', since)) => pc' = "filter"]_vars

\* The step in which a well-formed answer comes back to the walker.
PageBack == pc = "request" /\ caller = "page" /\ returned' = "200"

\* C29: an empty page ends the walk and adds nothing; a page with records
\* none of which is older than since and whose hasNextPage is false or absent
\* ends the walk too, its records appended to the accumulated ones.  No
\* request is made in either step.
StopOnExhausted ==
    [][/\ (PageBack /\ lastPage' = <<>>) =>
             pc' = "filter" /\ all_edges' = all_edges /\ requests' = requests
       /\ (PageBack /\ lastPage' # <<>> /\ ~lastMore' /\ ~HasOlder(lastPage', since)) =>
             /\ pc' = "filter"
             /\ all_edges' = all_edges \o lastPage'
             /\ requests' = requests]_vars

\* The second page said there is no next page; its records follow those of
\* the first and the walk has stopped.
StopOnExhaustedWitness ==
    /\ pc = "filter" /\ page_count = MaxPages
    /\ ~lastMore /\ lastPage # <<>>
    /\ ~HasOlder(lastPage, since)
    /\ Len(all_edges) > Len(lastPage)

\* C30: when a merge that stopped after any number of rows of its batch is
\* followed by a merge of the whole batch, the three tables are what one
\* merge of the batch, never interrupted, makes of the tables as they were.
RerunConverges ==
    pc = "done" => Store = Saved(variant, before, batch)

\* A merge of two records stopped after the first, which replaced a stored
\* row; the second merge has run.
RerunConvergesWitness ==
    /\ pc = "done" /\ dirty
    /\ Len(batch) = MaxBatch /\ written = 1
    /\ \E r \in before.hourly :
          KeyOf(r) = KeyOf(ToRow(variant, batch[1])) /\ r # ToRow(variant, batch[1])
    /\ hourly # InsertOrReplace(before.hourly, ToRow(variant, batch[1]))
\* C31: stored timestamps count as instants.  The from_time the resolver
\* reads as the maximum is the chronologically latest stored one, and no two
\* stored rows cover the same interval, however their timestamps are written.
ZoneNormalized ==
    /\ hourly # {} =>
          Instant(SqlMaxFromTime(variant, hourly)) = Val(MaxStoredInstant(hourly))
    /\ \A r1 \in hourly, r2 \in hourly :
          (/\ Instant(r1.from_time) = Instant(r2.from_time)
           /\ Instant(r1.to_time) = Instant(r2.to_time)) => r1 = r2
\* The pages the source has to give.
SourcePages == (Len(Visible(source, now)) + PageSize - 1) \div PageSize

\* C32: against a source that keeps to the protocol and with no cap, the
\* walk comes to its end: it asks for no more pages than the source has and
\* is never left without a next step.  What it returns is the sequence of
\* the source's records with since <= from <= until, newest first, each
\* once.
WalkComplete ==
    /\ pc = "fetched" => batch = Clip(Reverse(Visible(source, now)), since, until)
    /\ pc \in {"loop", "request", "filter"} =>
          /\ page_count <= SourcePages
          /\ attempt <= retries
          /\ ENABLED WalkStep

\* A walk of two pages returned some of the source's records and left out
\* others.
WalkCompleteWitness ==
    /\ pc = "fetched" /\ page_count = MaxPages
    /\ batch # <<>>
    /\ Len(batch) < Len(Visible(source, now))
\* C33: the answer that ends the walk ends it.  After an empty page, a
\* malformed answer, a page whose hasNextPage is not true or a page with a
\* record older than since, no page is requested any more; and with a cap M
\* no more than M pages are requested.
WalkStops ==
    [][/\ (/\ pc = "request" /\ caller = "page" /\ returned' # "none"
           /\ (lastPage' = <<>> \/ ~lastMore' \/ HasOlder(lastPage', since))) =>
             pc' \in {"filter", "failed"}
       /\ (pc' = "request" /\ ~IsNull(max_records')) =>
             page_count' <= Val(max_records')]_vars
\* C34: in a run whose since is later than its until the walker returns no
\* records, save_data returns at once, and no step of the run changes the
\* hourly table or an aggregate table.
EmptyWindow ==
    [][(since > until /\ pc \in {"loop", "request", "filter", "fetched"}) =>
          /\ hourly' = hourly /\ daily' = daily /\ monthly' = monthly
          /\ pc' = "fetched" => batch' = <<>>
          /\ pc' \notin {"aggregate", "monthly"}]_vars

\* A run on a filled store, its since one hour after the last stored
\* timestamp and later than its until, has asked for a page and ended.
EmptyWindowWitness ==
    /\ pc = "done" /\ ~dirty
    /\ ~explicit /\ ~readFailed
    /\ since > until
    /\ page_count >= 1
    /\ hourly # {}

\* What one variant's loop body makes of a response will end in an
\* exception: raised in the body, or raised where the frame is built from
\* edges that have no node.
WillRaise(r) == r.crash # "none" \/ r.bad > 0

\* The two loop bodies agree on a response: on whether another page is
\* requested and with which cursor, on whether the walk raises, and on the
\* records accumulated when it does not.
BodiesAgree(resp) ==
    LET d == HandlePageIn("duckdb", resp, all_edges, bad_edges, cursor, since)
        q == HandlePageIn("sqlite", resp, all_edges, bad_edges, cursor, since)
    IN /\ d.more = q.more
       /\ d.more => d.cursor = q.cursor
       /\ WillRaise(d) <=> WillRaise(q)
       /\ ~WillRaise(d) => d.all_edges = q.all_edges

\* C35: with no record cap, from the same window, accumulated records and
\* cursor, the DuckDB and the SQLite walker make the same of every page
\* response: they request the same next page or both stop, and they return
\* the same records or both raise.
VariantEquivalence ==
    (pc = "request" /\ caller = "page" /\ IsNull(max_records) /\ bad_edges = 0) =>
        \A resp \in WalkResponses : BodiesAgree(resp)

(***************************************************************************)
(* save_data called with one batch after another, on readings that come    *)
(* with a value and without one.                                           *)
(***************************************************************************)
\* Three hours of October and one of November; two of the October hours
\* come measured and, as the source sends an hour it has no reading for,
\* without consumption.
OrderNodes ==
    { MkNode(SatNight, IntervalHours, Measured),
      MkNode(SatNight, IntervalHours, Pending),
      MkNode(SunFirst, IntervalHours, Revised),
      MkNode(SunFirst, IntervalHours, Pending),
      MkNode(SunSecond, IntervalHours, Revised),
      MkNode(NovFirst, IntervalHours, Measured) }

OrderBatches == SeqsUpTo(OrderNodes, MaxBatch)

NextOrder == \E b \in OrderBatches : MergeBatch(b)

SpecOrder == InitStore /\ [][NextOrder]_vars

\* The primary keys a batch writes.
BatchKeys(v, records) == {KeyOf(ToRow(v, records[i])) : i \in 1..Len(records)}

\* C36: for two batches with disjoint key sets, saving one and then the
\* other leaves the same hourly, daily and monthly tables as saving them in
\* the other order.
MergeOrderIndependent ==
    \A a \in OrderBatches, b \in OrderBatches :
        BatchKeys(variant, a) \cap BatchKeys(variant, b) = {} =>
            Saved(variant, Saved(variant, Store, a), b) =
                Saved(variant, Saved(variant, Store, b), a)

\* C37: when the last of the R attempts has failed, by an exception, a 429
\* or 504, or another status, no sleep follows it: the request fails with
\* nothing slept since that attempt.
NoWaitAfterFinalAttempt ==
    (pc = "request" /\ ~InLoop(attempt, retries)) => waited = 0

====
